---- MODULE Spec2Model ----
(***************************************************************************)
(* NeuroPlan: the link-extraction, force-directed layout and ASCII         *)
(* rendering pipeline of src/graph.py, as a state machine.                 *)
(*                                                                         *)
(* Strings (task ids, titles, descriptions, the returned text) are         *)
(* sequences of one-character strings.  None is the empty sequence, which  *)
(* is falsy in Python exactly as None and "" are.                          *)
(* Floats are fixed-point integers counted in units of 1/Scale.            *)
(***************************************************************************)
EXTENDS Integers, Sequences, FiniteSets, TLC

VARIABLES
    tasks,       \* the List[Task] passed to find_links / generate_ascii_graph
    width,       \* the width argument
    height,      \* the height argument
    focus,       \* central_node_id (None = <<>>)
    seed,        \* the process's string-hash seed (PYTHONHASHSEED)
    pc,          \* position of the call in progress
    edges,       \* the list find_links returned / the edges argument
    nodes,       \* the node map, in dict (insertion) order
    lwidth,      \* force_layout's width argument
    lheight,     \* force_layout's height argument
    iterations,  \* force_layout's iterations argument
    iter,        \* iterations of the simulation loop completed
    k,           \* force_layout's k (ideal distance)
    raised,      \* the exception that ended the call ("" = none)
    grid,        \* render_to_grid's grid: rows of characters
    out,         \* the string generate_ascii_graph returned
    start,       \* nodes_map as built at lines 158-164 of this call
    call,        \* 1 for the first call of generate_ascii_graph, 2 for the repeat
    sameproc,    \* whether the repeat runs in the process of the first call
    first,       \* what the first call produced
    drawn,       \* edges the edge loop of render_to_grid has consumed
    labelled,    \* nodes the node loop of render_to_grid has consumed
    calls,       \* calls of draw_line made on the returned grid
    other,       \* the locals of the invocation that is not running
    web,         \* the edge records generate_web_graph built
    mtasks,      \* TaskManager.tasks: the stored tasks by id
    made,        \* how many task ids uuid4 has handed out
    last,        \* the delete_task call, if the call that returned last is one
    notified,    \* ReminderManager.notified_task_ids
    now,         \* the clock datetime.now() reads
    log          \* what each check_reminders call returned, oldest first

vars == <<tasks, width, height, focus, seed, pc, edges, nodes, lwidth, lheight,
          iterations, iter, k, raised, grid, out, start, call, sameproc, first,
          drawn, labelled, calls, other, web, mtasks, made, last, notified, now, log>>

renderVars == <<grid, out, start>>
repeatVars == <<call, sameproc, first>>
stepVars == <<drawn, labelled, calls>>
appVars == <<web, mtasks, made, last, notified, now, log>>

callArgs == <<tasks, width, height, focus, seed>>
layoutArgs == <<lwidth, lheight, iterations>>

None == <<>>

\* `first` before any call has ended
NoCall == [pc |-> "", out |-> <<>>, raised |-> "", start |-> <<>>]

\* `other` while a single invocation exists
NoThread == [pc |-> ""]

\* `last` unless the call that returned last is a delete_task
NoOp == [op |-> "", id |-> 0]

(***************************************************************************)
(* Bounds of the model.                                                    *)
(***************************************************************************)
MaxLinkTasks == 2
MaxSeed == 1
HashBits == 8
MaxLayoutNodes == 2
MaxIter == 3
MaxGraphTasks == 2
MaxLineCalls == 1
MaxTasks == 3
MaxDueTasks == 2
MaxTime == 1
MaxChecks == 2

Seeds == 0..MaxSeed

(***************************************************************************)
(* Characters and strings.                                                 *)
(***************************************************************************)
Alphabet == <<"a", "b", "c", "d", "e", "f", "0", "1", "2", "3", "4", "5",
              "6", "7", "8", "9", "-", "[", "]", "<", ">", "g", "T", "x",
              " ", ".", "\n">>

Ord(c) == CHOOSE i \in 1..Len(Alphabet) : Alphabet[i] = c

\* the character class [a-f0-9\-] of link_pattern
IdChars == {"a", "b", "c", "d", "e", "f", "0", "1", "2", "3", "4", "5",
            "6", "7", "8", "9", "-"}

Range(s) == {s[i] : i \in 1..Len(s)}

(***************************************************************************)
(* hash(): CPython hashes a str with a keyed hash whose key is drawn per   *)
(* process; the value is a function of (seed, characters).  Modelled as a  *)
(* keyed polynomial hash of HashBits bits.                                 *)
(***************************************************************************)
HashMod == 2 ^ HashBits

RECURSIVE HashFrom(_, _, _)
HashFrom(h, s, i) ==
    IF i > Len(s) THEN h
    ELSE HashFrom((h * 31 + Ord(s[i]) * (2 * h + 1) + 7) % HashMod, s, i + 1)

Hash(sd, s) == HashFrom((sd * 101 + 17) % HashMod, s, 1)

\* hash of a 2-tuple of str: a function of the two element hashes
TupleHash(sd, e) == (Hash(sd, e[1]) * 3 + Hash(sd, e[2]) * 5 + 1) % HashMod

(***************************************************************************)
(* re.findall(r'\[\[([a-f0-9\-]+)\]\]', s): the leftmost non-overlapping   *)
(* matches, scanning left to right; the group is the maximal run of class  *)
(* characters (']' is not in the class, so backtracking never helps).      *)
(***************************************************************************)
RECURSIVE RunEnd(_, _)
RunEnd(s, i) ==
    IF i <= Len(s) /\ s[i] \in IdChars THEN RunEnd(s, i + 1) ELSE i - 1

MatchAt(s, i) ==
    /\ i + 1 <= Len(s)
    /\ s[i] = "["
    /\ s[i + 1] = "["
    /\ LET j == RunEnd(s, i + 2)
       IN  /\ j >= i + 2
           /\ j + 2 <= Len(s)
           /\ s[j + 1] = "]"
           /\ s[j + 2] = "]"

RECURSIVE FindAllFrom(_, _)
FindAllFrom(s, i) ==
    IF i > Len(s) THEN <<>>
    ELSE IF MatchAt(s, i)
         THEN <<SubSeq(s, i + 2, RunEnd(s, i + 2))>>
                  \o FindAllFrom(s, RunEnd(s, i + 2) + 3)
         ELSE FindAllFrom(s, i + 1)

FindAll(s) == FindAllFrom(s, 1)

(***************************************************************************)
(* find_links                                                              *)
(***************************************************************************)
TaskIds(ts) == {ts[i].id : i \in 1..Len(ts)}

\* lines 26-28: the links one task's description yields, in match order
RECURSIVE TokenLinksAt(_, _, _, _)
TokenLinksAt(task, found, ids, i) ==
    IF i > Len(found) THEN <<>>
    ELSE (IF found[i] \in ids /\ task.id # found[i]
          THEN <<(<<task.id, found[i]>>)>> ELSE <<>>)
         \o TokenLinksAt(task, found, ids, i + 1)

\* a slip: only the first match of a description is used (re.search)
TokenLinksFirstOnly(task, found, ids) ==
    TokenLinksAt(task, IF found = <<>> THEN <<>> ELSE <<found[1]>>, ids, 1)

TokenLinks(task, found, ids) == TokenLinksAt(task, found, ids, 1)

\* a slip: the parent link is added without the membership test
ParentLinksUnchecked(task, ids) ==
    IF task.parent_id # None
    THEN <<(<<task.id, task.parent_id>>)>> ELSE <<>>

\* lines 30-31: the parent link of one task
ParentLinks(task, ids) ==
    IF task.parent_id # None /\ task.parent_id \in ids
    THEN <<(<<task.id, task.parent_id>>)>> ELSE <<>>

\* lines 23-31: the list `links` after the loop over the first n tasks
RECURSIVE LinksUpTo(_, _)
LinksUpTo(ts, n) ==
    IF n = 0 THEN <<>>
    ELSE LinksUpTo(ts, n - 1)
         \o TokenLinks(ts[n], FindAll(ts[n].description), TaskIds(ts))
         \o ParentLinks(ts[n], TaskIds(ts))

\* list(set(links)): the distinct tuples, in the set's iteration order.  A
\* CPython set iterates by table slot; the slot of an element is its hash
\* modulo the table size, elements that collide keep their insertion order.
FirstIndex(s, e) == CHOOSE i \in 1..Len(s) : s[i] = e /\ \A j \in 1..(i - 1) : s[j] # e

SetKey(sd, s, e) == (TupleHash(sd, e) % 8) * (Len(s) + 1) + FirstIndex(s, e)

RECURSIVE SortByKey(_, _, _)
SortByKey(sd, s, S) ==
    IF S = {} THEN <<>>
    ELSE LET e == CHOOSE x \in S : \A y \in S : SetKey(sd, s, x) <= SetKey(sd, s, y)
         IN  <<e>> \o SortByKey(sd, s, S \ {e})

ListOfSet(sd, s) == SortByKey(sd, s, Range(s))

find_links(sd, ts) == ListOfSet(sd, LinksUpTo(ts, Len(ts)))

(***************************************************************************)
(* Inputs of the link-extraction specification.                            *)
(***************************************************************************)
IdA == <<"a">>
IdB == <<"b">>
IdAB == <<"a", "b">>
IdAbsent == <<"f">>

LinkIds == {IdA, IdB, IdAB}
LinkParents == {None, IdA, IdB, IdAbsent}
LinkDescs == { <<>>,
               <<"[", "[", "a", "]", "]">>,
               <<"[", "[", "b", "]", "]", "x", "[", "[", "a", "b", "]", "]">>,
               <<"[", "[", "f", "]", "]", "[", "[", "a", "]", "]", "[", "[", "a", "]", "]">>,
               <<"[", "[", "g", "]", "]", "[", "a", "]", "]", "[", "[", "[", "b", "]", "]">>,
               <<"[", "[", "a", "]", "[", "[", "]", "]">> }

Task(i, t, d, p) == [id |-> i, title |-> t, description |-> d, parent_id |-> p]

DistinctIds(ts) == \A i, j \in 1..Len(ts) : i # j => ts[i].id # ts[j].id

TaskLists(n, recs) ==
    UNION { {ts \in [1..m -> recs] : DistinctIds(ts)} : m \in 0..n }

LinkTasks == {Task(i, <<"T">>, d, p) : i \in LinkIds, d \in LinkDescs, p \in LinkParents}

InitLinks ==
    /\ tasks \in TaskLists(MaxLinkTasks, LinkTasks)
    /\ width = 0
    /\ height = 0
    /\ focus = None
    /\ seed \in Seeds
    /\ pc = "find_links"
    /\ edges = <<>>
    /\ nodes = <<>>
    /\ lwidth = 0
    /\ lheight = 0
    /\ iterations = 0
    /\ iter = 0
    /\ k = 0
    /\ raised = ""
    /\ grid = <<>>
    /\ out = <<>>
    /\ start = <<>>
    /\ call = 1
    /\ sameproc = TRUE
    /\ first = NoCall
    /\ drawn = 0
    /\ labelled = 0
    /\ calls = 0
    /\ other = NoThread
    /\ web = <<>>
    /\ mtasks = <<>>
    /\ made = 0
    /\ last = NoOp
    /\ notified = {}
    /\ now = 0
    /\ log = <<>>

\* a call of find_links(tasks)
FindLinksCall ==
    /\ pc = "find_links"
    /\ edges' = find_links(seed, tasks)
    /\ pc' = "links_done"
    /\ UNCHANGED <<callArgs, nodes, layoutArgs, iter, k, raised, renderVars, repeatVars, stepVars, other,
                   appVars>>

NextLinks == FindLinksCall

SpecLinks == InitLinks /\ [][NextLinks]_vars

(***************************************************************************)
(* generate_web_graph (src/web_graph.py): the edge records of the web      *)
(* export, built from the task collection with the exporter's own copy of  *)
(* the two link rules.  The web specification calls find_links and then    *)
(* the exporter on the same tasks.                                         *)
(***************************************************************************)
WebRecord(from, to, dashes) == [from |-> from, to |-> to, dashes |-> dashes]

\* lines 49-50: the record of the parent link, without "dashes"
WebParentRecords(task, ids) ==
    IF task.parent_id # None /\ task.parent_id \in ids
    THEN <<WebRecord(task.id, task.parent_id, FALSE)>> ELSE <<>>

\* lines 53-55: a dashed record for every match that is a task id
RECURSIVE WebTokenRecords(_, _, _, _)
WebTokenRecords(task, found, ids, i) ==
    IF i > Len(found) THEN <<>>
    ELSE (IF found[i] \in ids
          THEN <<WebRecord(task.id, found[i], TRUE)>> ELSE <<>>)
         \o WebTokenRecords(task, found, ids, i + 1)

\* lines 11-55: the list `edges` after the loop over the first n tasks
RECURSIVE WebRecordsUpTo(_, _)
WebRecordsUpTo(ts, n) ==
    IF n = 0 THEN <<>>
    ELSE WebRecordsUpTo(ts, n - 1)
         \o WebParentRecords(ts[n], TaskIds(ts))
         \o WebTokenRecords(ts[n], FindAll(ts[n].description), TaskIds(ts), 1)

\* lines 8-58 of generate_web_graph, as far as the edge records go
WebGraphCall ==
    /\ pc = "links_done"
    /\ web' = WebRecordsUpTo(tasks, Len(tasks))
    /\ pc' = "web_done"
    /\ UNCHANGED <<callArgs, edges, nodes, layoutArgs, iter, k, raised, renderVars,
                   repeatVars, stepVars, other, mtasks, made, last, notified, now, log>>

NextWeb == FindLinksCall \/ WebGraphCall

SpecWeb == InitLinks /\ [][NextWeb]_vars

(***************************************************************************)
(* Fixed-point arithmetic.  A float v is the integer v * Scale; a quotient *)
(* that is not a whole number of units is truncated toward zero.  Every    *)
(* comparison, clamp, assignment and int() of the code is applied to these *)
(* values as the code applies it to its floats.                            *)
(***************************************************************************)
Scale == 100

Fx(n) == n * Scale

Abs(a) == IF a < 0 THEN -a ELSE a

TDiv(a, b) == IF a >= 0 THEN a \div b ELSE -((-a) \div b)

Min(a, b) == IF b < a THEN b ELSE a

Max(a, b) == IF b > a THEN b ELSE a

RECURSIVE Newton(_, _)
Newton(n, x) ==
    IF n = 0 THEN 0
    ELSE LET y == (x + n \div x) \div 2
         IN  IF y >= x THEN x ELSE Newton(n, y)

\* math.sqrt of a fixed-point square (units Scale^2 -> units Scale)
Isqrt(n) == Newton(n, n)

\* int(v): truncation toward zero
Trunc(v) == TDiv(v, Scale)

\* w / 2 (true division), exact because Scale is even
Half(w) == (w * Scale) \div 2

(***************************************************************************)
(* force_layout.  The node map is a sequence of entries                    *)
(* [id, title, x, y, dx, dy] in dict order; dx and dy are 0 until the      *)
(* first repulsion pass assigns them.                                      *)
(***************************************************************************)
Node(i, t, x, y) == [id |-> i, title |-> t, x |-> x, y |-> y, dx |-> 0, dy |-> 0]

NodeIds(ns) == {ns[i].id : i \in 1..Len(ns)}

IndexOf(ns, id) == CHOOSE i \in 1..Len(ns) : ns[i].id = id

\* line 47; the argument of math.sqrt is negative when width * height < 0
KOf(w, h, n) == Isqrt((w * h * Scale * Scale) \div n)

\* lines 56-58 and 69-71: sqrt(dx**2 + dy**2) + 0.01; Newton's iteration is
\* started from |dx| + |dy| + 1, which is not below the root
Distance(dx, dy) == Newton(dx * dx + dy * dy, Abs(dx) + Abs(dy) + 1) + 1

\* dx / distance * force
Along(d, distance, force) == TDiv(TDiv(d * Scale, distance) * force, Scale)

\* lines 54-62: the repulsion node i receives from node j
RECURSIVE RepelFrom(_, _, _, _)
RepelFrom(ns, kk, i, j) ==
    IF j > Len(ns) THEN [dx |-> 0, dy |-> 0]
    ELSE LET rest == RepelFrom(ns, kk, i, j + 1)
         IN  IF i = j THEN rest
             ELSE LET dx == ns[i].x - ns[j].x
                      dy == ns[i].y - ns[j].y
                      distance == Distance(dx, dy)
                      force == TDiv(TDiv(kk * kk, Scale) * Scale, distance)
                  IN  [dx |-> Along(dx, distance, force) + rest.dx,
                       dy |-> Along(dy, distance, force) + rest.dy]

\* a slip: dx and dy are not reset, the repulsion is added to what they hold
SetForceOnTop(n, r) == [n EXCEPT !.dx = @ + r.dx, !.dy = @ + r.dy]

\* lines 51-62: dx and dy are reset, then the repulsion of every other node is added
SetForce(n, r) == [n EXCEPT !.dx = r.dx, !.dy = r.dy]

Repulsion(ns, kk) ==
    [i \in 1..Len(ns) |-> SetForce(ns[i], RepelFrom(ns, kk, i, 1))]

\* line 66
EdgePresent(ns, e) == e[1] \in NodeIds(ns) /\ e[2] \in NodeIds(ns)

\* line 72 divides by k
AttractionRaises(ns, es, kk) ==
    kk = 0 /\ \E i \in 1..Len(es) : EdgePresent(ns, es[i])

\* a slip: the force is taken from the source and not given to the target
AttractSourceOnly(ns, e, kk, fid) ==
    LET a == IndexOf(ns, e[1])
        b == IndexOf(ns, e[2])
        dx == ns[a].x - ns[b].x
        dy == ns[a].y - ns[b].y
        distance == Distance(dx, dy)
        base == TDiv(distance * distance, kk)
        force == IF fid # None /\ (e[1] = fid \/ e[2] = fid)
                 THEN TDiv(base * 5, 2) ELSE base
        n1 == [ns EXCEPT ![a].dx = @ - Along(dx, distance, force)]
    IN  [n1 EXCEPT ![a].dy = @ - Along(dy, distance, force)]

\* lines 67-81: one edge's attraction; node1 and node2 are the same dict
\* when source = target, so the four updates are applied one after another
Attract(ns, e, kk, fid) ==
    LET a == IndexOf(ns, e[1])
        b == IndexOf(ns, e[2])
        dx == ns[a].x - ns[b].x
        dy == ns[a].y - ns[b].y
        distance == Distance(dx, dy)
        base == TDiv(distance * distance, kk)
        force == IF fid # None /\ (e[1] = fid \/ e[2] = fid)
                 THEN TDiv(base * 5, 2) ELSE base
        n1 == [ns EXCEPT ![a].dx = @ - Along(dx, distance, force)]
        n2 == [n1 EXCEPT ![b].dx = @ + Along(dx, distance, force)]
        n3 == [n2 EXCEPT ![a].dy = @ - Along(dy, distance, force)]
    IN  [n3 EXCEPT ![b].dy = @ + Along(dy, distance, force)]

\* a slip: `break` for `continue`, the pass ends at the first edge with an
\* endpoint that is not in the node map
RECURSIVE AttractionEndsAtAbsent(_, _, _, _, _)
AttractionEndsAtAbsent(ns, es, kk, fid, i) ==
    IF i > Len(es) THEN ns
    ELSE IF ~EdgePresent(ns, es[i]) THEN ns
    ELSE AttractionEndsAtAbsent(Attract(ns, es[i], kk, fid), es, kk, fid, i + 1)

\* lines 65-81: the attraction pass over edges i..Len(es)
RECURSIVE Attraction(_, _, _, _, _)
Attraction(ns, es, kk, fid, i) ==
    IF i > Len(es) THEN ns
    ELSE IF ~EdgePresent(ns, es[i]) THEN Attraction(ns, es, kk, fid, i + 1)
    ELSE Attraction(Attract(ns, es[i], kk, fid), es, kk, fid, i + 1)

\* a slip: a coordinate past an edge is reflected back into the canvas
ClampReflects(bound, v) ==
    IF v < 0 THEN 0 - v
    ELSE IF v > Fx(bound - 1) THEN 2 * Fx(bound - 1) - v
    ELSE v

\* a slip: the upper limit is the bound itself
ClampToBound(bound, v) == Min(Fx(bound), Max(0, v))

\* lines 98-99
Clamp(bound, v) == Min(Fx(bound - 1), Max(0, v))

\* a slip: the focus node is moved like any other node
IntegrateNoPin(n, w, h, fid) ==
    [n EXCEPT !.x = Clamp(w, n.x + TDiv(n.dx, 100)),
              !.y = Clamp(h, n.y + TDiv(n.dy, 100))]

\* lines 84-99: one node of the integration pass
Integrate(n, w, h, fid) ==
    IF n.id = fid
    THEN [n EXCEPT !.x = Half(w), !.y = Half(h)]
    ELSE [n EXCEPT !.x = Clamp(w, n.x + TDiv(n.dx, 100)),
                   !.y = Clamp(h, n.y + TDiv(n.dy, 100))]

\* lines 84-99: the integration pass
Integration(ns, w, h, fid) == [i \in 1..Len(ns) |-> Integrate(ns[i], w, h, fid)]

\* lines 50-99: one iteration of the simulation loop (k # 0 or no edge present)
Iteration(ns, es, w, h, kk, fid) ==
    Integration(Attraction(Repulsion(ns, kk), es, kk, fid, 1), w, h, fid)

\* a slip: no test for the empty node map, line 47 divides by len(nodes)
LayoutEnterWithoutEmptyTest ==
    /\ pc = "layout"
    /\ IF nodes = <<>>
       THEN pc' = "raised" /\ raised' = "ZeroDivisionError" /\ UNCHANGED k
       ELSE IF lwidth * lheight < 0
       THEN pc' = "raised" /\ raised' = "ValueError" /\ UNCHANGED k
       ELSE /\ k' = KOf(lwidth, lheight, Len(nodes))
            /\ pc' = "iterate"
            /\ UNCHANGED raised
    /\ iter' = 0
    /\ UNCHANGED <<callArgs, edges, nodes, layoutArgs, renderVars, repeatVars, stepVars, other,
                   appVars>>

\* lines 45-47: entry of force_layout
LayoutEnter ==
    /\ pc = "layout"
    /\ IF nodes = <<>>
       THEN pc' = "layout_done" /\ UNCHANGED <<k, raised>>
       ELSE IF lwidth * lheight < 0
       THEN pc' = "raised" /\ raised' = "ValueError" /\ UNCHANGED k
       ELSE /\ k' = KOf(lwidth, lheight, Len(nodes))
            /\ pc' = "iterate"
            /\ UNCHANGED raised
    /\ iter' = 0
    /\ UNCHANGED <<callArgs, edges, nodes, layoutArgs, renderVars, repeatVars, stepVars, other,
                   appVars>>

\* lines 49-99: one pass of the loop body
LayoutIterate ==
    /\ pc = "iterate"
    /\ iter < iterations
    /\ IF AttractionRaises(nodes, edges, k)
       THEN /\ pc' = "raised"
            /\ raised' = "ZeroDivisionError"
            /\ nodes' = Repulsion(nodes, k)
            /\ UNCHANGED iter
       ELSE /\ nodes' = Iteration(nodes, edges, lwidth, lheight, k, focus)
            /\ iter' = iter + 1
            /\ UNCHANGED <<pc, raised>>
    /\ UNCHANGED <<callArgs, edges, layoutArgs, k, renderVars, repeatVars, stepVars, other,
                   appVars>>

\* line 101
LayoutReturn ==
    /\ pc = "iterate"
    /\ iter = iterations
    /\ pc' = "layout_done"
    /\ UNCHANGED <<callArgs, edges, nodes, layoutArgs, iter, k, raised, renderVars,
                   repeatVars, stepVars, other,
                   appVars>>

(***************************************************************************)
(* Inputs of the layout specification: force_layout called on its own.     *)
(***************************************************************************)
IdC == <<"c">>
LayoutIdSeq == <<IdA, IdB, IdC>>
LayoutCoords == { <<-150, 0>>, <<0, 130>>, <<250, 130>>, <<700, 450>> }
LayoutEdges == { <<>>,
                 << <<IdA, IdB>> >>,
                 << <<IdB, IdA>>, <<IdA, IdB>>, <<IdA, IdAbsent>> >>,
                 << <<IdA, IdA>>, <<IdC, IdA>> >> }
LayoutWidths == {1, 2, 5}
LayoutHeights == {1, 4}

LayoutNodeMaps ==
    UNION { { [i \in 1..m |-> Node(LayoutIdSeq[i], <<"T">>, c[i][1], c[i][2])] :
                c \in [1..m -> LayoutCoords] } : m \in 0..MaxLayoutNodes }

InitLayout ==
    /\ tasks = <<>>
    /\ width = 0
    /\ height = 0
    /\ seed = 0
    /\ focus \in {None, IdA, IdB, IdAbsent}
    /\ nodes \in LayoutNodeMaps
    /\ edges \in LayoutEdges
    /\ lwidth \in LayoutWidths
    /\ lheight \in LayoutHeights
    /\ iterations \in 0..MaxIter
    /\ iter = 0
    /\ k = 0
    /\ raised = ""
    /\ pc = "layout"
    /\ grid = <<>>
    /\ out = <<>>
    /\ start = <<>>
    /\ call = 1
    /\ sameproc = TRUE
    /\ first = NoCall
    /\ drawn = 0
    /\ labelled = 0
    /\ calls = 0
    /\ other = NoThread
    /\ web = <<>>
    /\ mtasks = <<>>
    /\ made = 0
    /\ last = NoOp
    /\ notified = {}
    /\ now = 0
    /\ log = <<>>

NextLayout == LayoutEnter \/ LayoutIterate \/ LayoutReturn

SpecLayout == InitLayout /\ [][NextLayout]_vars

(***************************************************************************)
(* draw_line and render_to_grid.  grid[y + 1][x + 1] is Python's           *)
(* grid[y][x].                                                             *)
(***************************************************************************)
BlankGrid(w, h) == [y \in 1..h |-> [x \in 1..w |-> " "]]

\* lines 117-123: the next (x1, y1, err)
StepX(err, dy) == 2 * err >= dy

StepY(err, dx) == 2 * err <= dx

NextErr(err, dx, dy) ==
    err + (IF StepX(err, dy) THEN dy ELSE 0) + (IF StepY(err, dx) THEN dx ELSE 0)

\* lines 112-123: the cells the loop visits from the current (x1, y1, err),
\* in order
RECURSIVE LinePath(_, _, _, _, _, _, _, _, _)
LinePath(x1, y1, x2, y2, dx, dy, sx, sy, err) ==
    IF x1 = x2 /\ y1 = y2 THEN << <<x1, y1>> >>
    ELSE << <<x1, y1>> >>
         \o LinePath(IF StepX(err, dy) THEN x1 + sx ELSE x1,
                     IF StepY(err, dx) THEN y1 + sy ELSE y1,
                     x2, y2, dx, dy, sx, sy, NextErr(err, dx, dy))

\* a slip: the end test comes before the cell is visited, the last cell is
\* left out
LineCellsOpenEnded(x1, y1, x2, y2) ==
    LET p == LinePath(x1, y1, x2, y2, Abs(x2 - x1), -Abs(y2 - y1),
                      IF x1 < x2 THEN 1 ELSE -1, IF y1 < y2 THEN 1 ELSE -1,
                      Abs(x2 - x1) - Abs(y2 - y1))
    IN  SubSeq(p, 1, Len(p) - 1)

\* lines 106-123: the cells draw_line visits
LineCells(x1, y1, x2, y2) ==
    LinePath(x1, y1, x2, y2, Abs(x2 - x1), -Abs(y2 - y1),
             IF x1 < x2 THEN 1 ELSE -1, IF y1 < y2 THEN 1 ELSE -1,
             Abs(x2 - x1) - Abs(y2 - y1))

\* a slip: every visited cell inside the grid is marked, whatever it holds
PlotOver(g, cells) ==
    [y \in 1..Len(g) |->
        [x \in 1..Len(g[y]) |->
            IF <<x - 1, y - 1>> \in cells THEN "." ELSE g[y][x]]]

\* lines 113-114 for every visited cell: a cell inside the grid that holds a
\* space becomes '.', every other cell is left as it is
Plot(g, cells) ==
    [y \in 1..Len(g) |->
        [x \in 1..Len(g[y]) |->
            IF g[y][x] = " " /\ <<x - 1, y - 1>> \in cells THEN "." ELSE g[y][x]]]

\* lines 104-123
draw_line(g, x1, y1, x2, y2) == Plot(g, Range(LineCells(x1, y1, x2, y2)))

\* lines 130-133: the edge pass over edges i..Len(es)
RECURSIVE DrawEdges(_, _, _, _)
DrawEdges(g, ns, es, i) ==
    IF i > Len(es) THEN g
    ELSE IF ~EdgePresent(ns, es[i]) THEN DrawEdges(g, ns, es, i + 1)
    ELSE LET n1 == ns[IndexOf(ns, es[i][1])]
             n2 == ns[IndexOf(ns, es[i][2])]
         IN  DrawEdges(draw_line(g, Trunc(n1.x), Trunc(n1.y), Trunc(n2.x), Trunc(n2.y)),
                       ns, es, i + 1)

\* a slip: the title is not clipped
LabelUnclipped(n, fid) ==
    IF n.id = fid THEN <<"<">> \o n.title \o <<">">>
    ELSE <<"[">> \o n.title \o <<"]">>

\* lines 139-141
Label(n, fid) ==
    LET title == SubSeq(n.title, 1, Min(10, Len(n.title)))
    IN  IF n.id = fid THEN <<"<">> \o title \o <<">">>
        ELSE <<"[">> \o title \o <<"]">>

\* lines 144-146
RECURSIVE WriteLabel(_, _, _, _, _, _)
WriteLabel(g, label, x, y, w, i) ==
    IF i > Len(label) THEN g
    ELSE WriteLabel(IF x + (i - 1) < w
                    THEN [g EXCEPT ![y + 1][x + i] = label[i]] ELSE g,
                    label, x, y, w, i + 1)

\* lines 137-146: one node of the node pass
DrawNode(g, n, w, h, fid) ==
    LET x == Trunc(n.x)
        y == Trunc(n.y)
        label == Label(n, fid)
    IN  IF 0 <= y /\ y < h /\ 0 <= x /\ x < w - Len(label)
        THEN WriteLabel(g, label, x, y, w, 1)
        ELSE g

\* lines 136-146
RECURSIVE DrawNodes(_, _, _, _, _, _)
DrawNodes(g, ns, w, h, fid, i) ==
    IF i > Len(ns) THEN g
    ELSE DrawNodes(DrawNode(g, ns[i], w, h, fid), ns, w, h, fid, i + 1)

\* lines 125-147
render_to_grid(ns, es, w, h, fid) ==
    DrawNodes(DrawEdges(BlankGrid(w, h), ns, es, 1), ns, w, h, fid, 1)

RECURSIVE JoinFrom(_, _)
JoinFrom(g, i) ==
    IF i > Len(g) THEN <<>>
    ELSE IF i = Len(g) THEN g[i]
    ELSE g[i] \o <<"\n">> \o JoinFrom(g, i + 1)

\* a slip: every row is ended with a line break, the last one too
JoinRowsTerminated(g) == IF g = <<>> THEN <<>> ELSE JoinFrom(g, 1) \o <<"\n">>

\* line 177: "\n".join("".join(row) for row in grid)
JoinRows(g) == JoinFrom(g, 1)

(***************************************************************************)
(* generate_ascii_graph                                                    *)
(***************************************************************************)
NoTasksMessage == <<"N", "o", " ", "t", "a", "s", "k", "s", " ", "t", "o", " ", "b", "u", "i", "l", "d", " ", "a", " ", "g", "r", "a", "p", "h", " ", "f", "r", "o", "m", ".">>

NoLinksMessage == <<"N", "o", " ", "l", "i", "n", "k", "s", " ", "o", "r", " ", "p", "a", "r", "e", "n", "t", "-", "c", "h", "i", "l", "d", " ", "r", "e", "l", "a", "t", "i", "o", "n", "s", "h", "i", "p", "s", " ", "f", "o", "u", "n", "d", " ", "b", "e", "t", "w", "e", "e", "n", " ", "t", "a", "s", "k", "s", ".">>

\* the default of force_layout's iterations parameter
DefaultIterations == 100

\* a slip: the jitter is salted anew on every call
JitterPerCall(sd, s) == (Hash(sd + call, s) % 10) - 5

\* hash(s) % 10 - 5
Jitter(sd, s) == (Hash(sd, s) % 10) - 5

\* lines 158-164 (task ids are distinct, so every task keeps its own entry)
NodesMap(sd, ts, w, h) ==
    [i \in 1..Len(ts) |->
        Node(ts[i].id, ts[i].title,
             Half(w) + Fx(Jitter(sd, ts[i].id)),
             Half(h) + Fx(Jitter(sd, ts[i].title)))]

\* a slip: the title is clipped to its ten label characters in the task
\* itself while the node map is built
GraphBuildClipsTitles ==
    /\ pc = "call"
    /\ tasks # <<>>
    /\ tasks' = [i \in 1..Len(tasks) |->
                    [tasks[i] EXCEPT !.title = SubSeq(@, 1, Min(10, Len(@)))]]
    /\ nodes' = NodesMap(seed, tasks', width, height)
    /\ start' = nodes'
    /\ pc' = "links"
    /\ UNCHANGED <<width, height, focus, seed, edges, layoutArgs, iter, k, raised, grid,
                   out, repeatVars, stepVars, other,
                   appVars>>

\* a slip: the node map is built without the test for an empty task list
GraphBuildWithoutEmptyTest ==
    /\ pc = "call"
    /\ nodes' = NodesMap(seed, tasks, width, height)
    /\ start' = nodes'
    /\ pc' = "links"
    /\ UNCHANGED <<callArgs, edges, layoutArgs, iter, k, raised, grid, out, repeatVars,
                   stepVars, other,
                   appVars>>

\* lines 154-164
GraphBuild ==
    /\ pc = "call"
    /\ IF tasks = <<>>
       THEN /\ out' = NoTasksMessage
            /\ pc' = "returned"
            /\ UNCHANGED <<nodes, start>>
       ELSE /\ nodes' = NodesMap(seed, tasks, width, height)
            /\ start' = nodes'
            /\ pc' = "links"
            /\ UNCHANGED out
    /\ UNCHANGED <<callArgs, edges, layoutArgs, iter, k, raised, grid, repeatVars, stepVars, other,
                   appVars>>

\* a slip: the margin leaves room for the ten title characters only
InsetWidthForTitle(w) == w - 10

\* line 171: the layout canvas is width - 12 by height - 4
InsetWidth(w) == w - 12

InsetHeight(h) == h - 4

\* a slip: a pair of tasks is not yet "more than one"
NoRelationshipsAmongMany(es, ts) == es = <<>> /\ Len(ts) > 2

\* line 167: not edges and len(tasks) > 1
NoRelationships(es, ts) == es = <<>> /\ Len(ts) > 1

\* lines 165-171: find_links, the no-relationship return, the call of force_layout
GraphLinks ==
    /\ pc = "links"
    /\ edges' = find_links(seed, tasks)
    /\ IF NoRelationships(edges', tasks)
       THEN /\ out' = NoLinksMessage
            /\ pc' = "returned"
            /\ UNCHANGED layoutArgs
       ELSE /\ lwidth' = InsetWidth(width)
            /\ lheight' = InsetHeight(height)
            /\ iterations' = DefaultIterations
            /\ pc' = "layout"
            /\ UNCHANGED out
    /\ UNCHANGED <<callArgs, nodes, iter, k, raised, grid, start, repeatVars, stepVars, other,
                   appVars>>

\* line 174
GraphRender ==
    /\ pc = "layout_done"
    /\ grid' = render_to_grid(nodes, edges, width, height, focus)
    /\ pc' = "rendered"
    /\ UNCHANGED <<callArgs, edges, nodes, layoutArgs, iter, k, raised, out, start,
                   repeatVars, stepVars, other,
                   appVars>>

\* line 177
GraphJoin ==
    /\ pc = "rendered"
    /\ out' = JoinRows(grid)
    /\ pc' = "returned"
    /\ UNCHANGED <<callArgs, edges, nodes, layoutArgs, iter, k, raised, grid, start,
                   repeatVars, stepVars, other,
                   appVars>>

(***************************************************************************)
(* Inputs of the pipeline specification: one call of generate_ascii_graph. *)
(***************************************************************************)
LongTitle == <<"a", "b", "c", "d", "e", "f", "g", "T", "x", "0", "1">>
RefA == <<"[", "[", "a", "]", "]">>
RefB == <<"[", "[", "b", "]", "]">>

\* the tasks a list may hold, by id
GraphPool ==
    [a |-> { Task(IdA, <<"T">>, <<>>, None), Task(IdA, LongTitle, RefB, None),
             Task(IdA, <<"T">>, RefA, IdA), Task(IdA, <<"x", "\n">>, <<>>, IdB) },
     b |-> { Task(IdB, <<"x">>, <<>>, None), Task(IdB, <<"T">>, RefA, IdA),
             Task(IdB, <<>>, <<>>, IdAbsent) },
     c |-> { Task(IdC, <<"T">>, <<>>, None), Task(IdC, <<"g">>, RefA, IdB) }]

GraphTasks == GraphPool.a \cup GraphPool.b \cup GraphPool.c

GraphSizes == { <<1, 1>>, <<12, 6>>, <<16, 6>>, <<16, 1>>, <<14, 5>>, <<40, 10>> }

InitGraph ==
    /\ tasks \in TaskLists(MaxGraphTasks, GraphTasks)
    /\ \E wh \in GraphSizes : width = wh[1] /\ height = wh[2]
    /\ focus \in {None, IdA}
    /\ seed \in Seeds
    /\ pc = "call"
    /\ edges = <<>>
    /\ nodes = <<>>
    /\ lwidth = 0
    /\ lheight = 0
    /\ iterations = 0
    /\ iter = 0
    /\ k = 0
    /\ raised = ""
    /\ grid = <<>>
    /\ out = <<>>
    /\ start = <<>>
    /\ call = 1
    /\ sameproc = TRUE
    /\ first = NoCall
    /\ drawn = 0
    /\ labelled = 0
    /\ calls = 0
    /\ other = NoThread
    /\ web = <<>>
    /\ mtasks = <<>>
    /\ made = 0
    /\ last = NoOp
    /\ notified = {}
    /\ now = 0
    /\ log = <<>>

NextGraph ==
    \/ GraphBuild
    \/ GraphLinks
    \/ LayoutEnter
    \/ LayoutIterate
    \/ LayoutReturn
    \/ GraphRender
    \/ GraphJoin

Spec == InitGraph /\ [][NextGraph]_vars

(***************************************************************************)
(* The repeat specification: generate_ascii_graph is called a second time  *)
(* with the same arguments, in the same process or in another process      *)
(* (whose string-hash seed is its own).                                    *)
(***************************************************************************)
RepeatTasks == GraphPool.a \cup GraphPool.b

RepeatSizes == { <<16, 6>>, <<12, 6>>, <<40, 10>> }

InitRepeat ==
    /\ tasks \in TaskLists(MaxGraphTasks, RepeatTasks)
    /\ \E wh \in RepeatSizes : width = wh[1] /\ height = wh[2]
    /\ focus \in {None, IdA}
    /\ seed \in Seeds
    /\ pc = "call"
    /\ edges = <<>>
    /\ nodes = <<>>
    /\ lwidth = 0
    /\ lheight = 0
    /\ iterations = 0
    /\ iter = 0
    /\ k = 0
    /\ raised = ""
    /\ grid = <<>>
    /\ out = <<>>
    /\ start = <<>>
    /\ call = 1
    /\ sameproc = TRUE
    /\ first = NoCall
    /\ drawn = 0
    /\ labelled = 0
    /\ calls = 0
    /\ other = NoThread
    /\ web = <<>>
    /\ mtasks = <<>>
    /\ made = 0
    /\ last = NoOp
    /\ notified = {}
    /\ now = 0
    /\ log = <<>>

\* the first call has ended; its locals are gone and the second call begins
Again ==
    /\ call = 1
    /\ pc \in {"returned", "raised"}
    /\ first' = [pc |-> pc, out |-> out, raised |-> raised, start |-> start]
    /\ call' = 2
    /\ pc' = "call"
    /\ edges' = <<>>
    /\ nodes' = <<>>
    /\ lwidth' = 0
    /\ lheight' = 0
    /\ iterations' = 0
    /\ iter' = 0
    /\ k' = 0
    /\ raised' = ""
    /\ grid' = <<>>
    /\ out' = <<>>
    /\ start' = <<>>
    /\ UNCHANGED <<tasks, width, height, focus, stepVars, other, appVars>>

RepeatSameProcess ==
    /\ Again
    /\ sameproc' = TRUE
    /\ UNCHANGED seed

RepeatOtherProcess ==
    /\ Again
    /\ sameproc' = FALSE
    /\ seed' \in Seeds \ {seed}

NextRepeat ==
    \/ GraphBuild
    \/ GraphLinks
    \/ LayoutEnter
    \/ LayoutIterate
    \/ LayoutReturn
    \/ GraphRender
    \/ GraphJoin
    \/ RepeatSameProcess
    \/ RepeatOtherProcess

SpecRepeat == InitRepeat /\ [][NextRepeat]_vars

(***************************************************************************)
(* The threads specification: after a call of generate_ascii_graph that    *)
(* ran alone, two invocations with the same arguments run in two threads   *)
(* of the process.  Every name generate_ascii_graph assigns is a local of  *)
(* its frame, so each invocation has its own; `other` holds the frame of   *)
(* the invocation that is not running, and a thread switch exchanges the   *)
(* two.  other.overlapped records that a switch left one invocation in     *)
(* flight while the other was in flight too.                               *)
(***************************************************************************)
\* the frame of the running invocation
Locals ==
    [pc |-> pc, edges |-> edges, nodes |-> nodes, lwidth |-> lwidth,
     lheight |-> lheight, iterations |-> iterations, iter |-> iter, k |-> k,
     raised |-> raised, grid |-> grid, out |-> out, start |-> start]

\* the frame of an invocation that has not executed a statement yet
FreshLocals ==
    [pc |-> "call", edges |-> <<>>, nodes |-> <<>>, lwidth |-> 0, lheight |-> 0,
     iterations |-> 0, iter |-> 0, k |-> 0, raised |-> "", grid |-> <<>>,
     out |-> <<>>, start |-> <<>>]

Ended(p) == p \in {"returned", "raised"}

InFlight(p) == p \notin {"", "call", "returned", "raised"}

\* a slip: the node map is a module-level dict, the one both invocations use
ResumeSharedNodeMap(saved, running) == [saved EXCEPT !.nodes = running.nodes]

\* lines 158-174: nodes_map, edges, positioned_nodes and grid are locals, so
\* the invocation that resumes finds them as it left them
Resume(saved, running) == saved

\* the call that ran alone has ended; two invocations with its arguments begin
Fork ==
    /\ call = 1
    /\ Ended(pc)
    /\ first' = [pc |-> pc, out |-> out, raised |-> raised, start |-> start]
    /\ call' = 2
    /\ pc' = "call"
    /\ edges' = <<>>
    /\ nodes' = <<>>
    /\ lwidth' = 0
    /\ lheight' = 0
    /\ iterations' = 0
    /\ iter' = 0
    /\ k' = 0
    /\ raised' = ""
    /\ grid' = <<>>
    /\ out' = <<>>
    /\ start' = <<>>
    /\ other' = [frame |-> FreshLocals, overlapped |-> FALSE]
    /\ UNCHANGED <<callArgs, sameproc, stepVars, appVars>>

\* the running thread is suspended and the other thread resumes
Switch ==
    /\ call = 2
    /\ ~Ended(other.frame.pc)
    /\ LET r == Resume(other.frame, Locals)
       IN  /\ pc' = r.pc
           /\ edges' = r.edges
           /\ nodes' = r.nodes
           /\ lwidth' = r.lwidth
           /\ lheight' = r.lheight
           /\ iterations' = r.iterations
           /\ iter' = r.iter
           /\ k' = r.k
           /\ raised' = r.raised
           /\ grid' = r.grid
           /\ out' = r.out
           /\ start' = r.start
    /\ other' = [frame |-> Locals,
                 overlapped |-> other.overlapped
                                \/ (InFlight(pc) /\ InFlight(other.frame.pc))]
    /\ UNCHANGED <<callArgs, repeatVars, stepVars, appVars>>

ThreadTasks ==
    { <<>>,
      << Task(IdA, <<"T">>, <<>>, None) >>,
      << Task(IdA, LongTitle, RefB, None), Task(IdB, <<"T">>, RefA, IdA) >>,
      << Task(IdA, <<"T">>, <<>>, None), Task(IdB, <<"x">>, <<>>, None) >> }

ThreadSizes == { <<16, 6>>, <<12, 6>> }

InitThreads ==
    /\ tasks \in ThreadTasks
    /\ \E wh \in ThreadSizes : width = wh[1] /\ height = wh[2]
    /\ focus \in {None, IdA}
    /\ seed \in Seeds
    /\ pc = "call"
    /\ edges = <<>>
    /\ nodes = <<>>
    /\ lwidth = 0
    /\ lheight = 0
    /\ iterations = 0
    /\ iter = 0
    /\ k = 0
    /\ raised = ""
    /\ grid = <<>>
    /\ out = <<>>
    /\ start = <<>>
    /\ call = 1
    /\ sameproc = TRUE
    /\ first = NoCall
    /\ drawn = 0
    /\ labelled = 0
    /\ calls = 0
    /\ other = NoThread
    /\ web = <<>>
    /\ mtasks = <<>>
    /\ made = 0
    /\ last = NoOp
    /\ notified = {}
    /\ now = 0
    /\ log = <<>>

NextThreads ==
    \/ GraphBuild
    \/ GraphLinks
    \/ LayoutEnter
    \/ LayoutIterate
    \/ LayoutReturn
    \/ GraphRender
    \/ GraphJoin
    \/ Fork
    \/ Switch

SpecThreads == InitThreads /\ [][NextThreads]_vars

(***************************************************************************)
(* The drawing specification: force_layout and then render_to_grid, called *)
(* on node maps and edge lists of the caller's choice, as lines 171-174 do *)
(* for generate_ascii_graph.  render_to_grid advances one edge and one     *)
(* node at a time; the grid it returns is the caller's, who may call       *)
(* draw_line on it.                                                        *)
(***************************************************************************)
\* line 127
RenderBegin ==
    /\ pc = "layout_done"
    /\ grid' = BlankGrid(width, height)
    /\ drawn' = 0
    /\ labelled' = 0
    /\ pc' = "render_edges"
    /\ UNCHANGED <<callArgs, edges, nodes, layoutArgs, iter, k, raised, out, start,
                   repeatVars, calls, other,
                   appVars>>

\* lines 131-133: the body of the edge loop for the edge e
EdgeLine(g, ns, e) ==
    IF ~EdgePresent(ns, e) THEN g
    ELSE LET n1 == ns[IndexOf(ns, e[1])]
             n2 == ns[IndexOf(ns, e[2])]
         IN  draw_line(g, Trunc(n1.x), Trunc(n1.y), Trunc(n2.x), Trunc(n2.y))

\* lines 130-133: one pass of the edge loop, or its end
RenderEdge ==
    /\ pc = "render_edges"
    /\ IF drawn < Len(edges)
       THEN /\ grid' = EdgeLine(grid, nodes, edges[drawn + 1])
            /\ drawn' = drawn + 1
            /\ UNCHANGED pc
       ELSE /\ pc' = "render_nodes"
            /\ UNCHANGED <<grid, drawn>>
    /\ UNCHANGED <<callArgs, edges, nodes, layoutArgs, iter, k, raised, out, start,
                   repeatVars, labelled, calls, other,
                   appVars>>

\* lines 136-147: one pass of the node loop, or the return
RenderNode ==
    /\ pc = "render_nodes"
    /\ IF labelled < Len(nodes)
       THEN /\ grid' = DrawNode(grid, nodes[labelled + 1], width, height, focus)
            /\ labelled' = labelled + 1
            /\ UNCHANGED pc
       ELSE /\ pc' = "rendered"
            /\ UNCHANGED <<grid, labelled>>
    /\ UNCHANGED <<callArgs, edges, nodes, layoutArgs, iter, k, raised, out, start,
                   repeatVars, drawn, calls, other,
                   appVars>>

\* the end points of the caller's own lines
LineEnds == { <<0, 0, 5, 2>>, <<-1, 1, 3, 1>>, <<2, 0, 2, 0>>, <<4, 2, 0, 0>> }

\* lines 104-123: draw_line called on the grid render_to_grid returned
DrawLineCall ==
    /\ pc = "rendered"
    /\ calls < MaxLineCalls
    /\ \E l \in LineEnds : grid' = draw_line(grid, l[1], l[2], l[3], l[4])
    /\ calls' = calls + 1
    /\ UNCHANGED <<callArgs, pc, edges, nodes, layoutArgs, iter, k, raised, out, start,
                   repeatVars, drawn, labelled, other,
                   appVars>>

RenderTitles == <<(<<"T">>), LongTitle, (<<"x">>)>>
RenderCoords == { <<0, 0>>, <<300, 0>>, <<450, 150>>, <<-100, 100>>, <<150, 250>> }
RenderEdgeLists == { <<>>,
                     << <<IdA, IdB>> >>,
                     << <<IdA, IdAbsent>>, <<IdB, IdA>> >>,
                     << <<IdA, IdA>>, <<IdC, IdA>>, <<IdA, IdB>> >> }
RenderLayoutSizes == { <<0, 3>>, <<4, 3>> }
RenderSizes == { <<6, 3>>, <<14, 2>> }

RenderNodeMaps ==
    UNION { { [i \in 1..m |-> Node(LayoutIdSeq[i], RenderTitles[i], c[i][1], c[i][2])] :
                c \in [1..m -> RenderCoords] } : m \in 0..MaxLayoutNodes }

InitRender ==
    /\ tasks = <<>>
    /\ seed = 0
    /\ \E wh \in RenderSizes : width = wh[1] /\ height = wh[2]
    /\ \E wh \in RenderLayoutSizes : lwidth = wh[1] /\ lheight = wh[2]
    /\ focus \in {None, IdA}
    /\ nodes \in RenderNodeMaps
    /\ edges \in RenderEdgeLists
    /\ iterations \in {0, MaxIter}
    /\ iter = 0
    /\ k = 0
    /\ raised = ""
    /\ pc = "layout"
    /\ grid = <<>>
    /\ out = <<>>
    /\ start = <<>>
    /\ call = 1
    /\ sameproc = TRUE
    /\ first = NoCall
    /\ drawn = 0
    /\ labelled = 0
    /\ calls = 0
    /\ other = NoThread
    /\ web = <<>>
    /\ mtasks = <<>>
    /\ made = 0
    /\ last = NoOp
    /\ notified = {}
    /\ now = 0
    /\ log = <<>>

NextRender ==
    \/ LayoutEnter
    \/ LayoutIterate
    \/ LayoutReturn
    \/ RenderBegin
    \/ RenderEdge
    \/ RenderNode
    \/ DrawLineCall

SpecRender == InitRender /\ [][NextRender]_vars

(***************************************************************************)
(* Claims about find_links (checked under SpecLinks).                      *)
(***************************************************************************)
SamePair(e, f) == {e[1], e[2]} = {f[1], f[2]}

\* C1: find_links returns at most one edge per unordered pair of task ids,
\* whatever the direction in which each link was discovered.
C1_OneEdgePerUnorderedPair ==
    pc = "links_done" =>
        \A i, j \in 1..Len(edges) : i # j => ~SamePair(edges[i], edges[j])

\* C2: no edge returned by find_links has source equal to target, neither
\* from a self-referencing description nor from parent_id = own id.
C2_NoSelfLoop ==
    pc = "links_done" => \A i \in 1..Len(edges) : edges[i][1] # edges[i][2]

\* C3: both endpoints of every returned edge are ids of tasks in the list;
\* a token or parent_id naming an absent id yields no edge (and the call
\* completes).
C3_EndpointsAreTaskIds ==
    pc = "links_done" =>
        \A i \in 1..Len(edges) :
            edges[i][1] \in TaskIds(tasks) /\ edges[i][2] \in TaskIds(tasks)

C3_Witness ==
    /\ pc = "links_done"
    /\ Len(tasks) = 2
    /\ \E i \in 1..Len(tasks) :
          /\ tasks[i].parent_id = IdAbsent
          /\ IdAbsent \in Range(FindAll(tasks[i].description))
    /\ Len(edges) >= 1

\* C4: the result is exactly the set of edges the two link rules justify:
\* (t.id, m) for every pattern match m in t.description with m a task id
\* and m # t.id, and (t.id, t.parent_id) for every task whose non-null
\* parent_id is a task id; nothing else, and nothing twice.
TokenRule(ts) ==
    UNION { { <<ts[i].id, m>> :
                m \in (Range(FindAll(ts[i].description)) \cap TaskIds(ts)) \ {ts[i].id} } :
            i \in 1..Len(ts) }

ParentRule(ts) ==
    { <<ts[i].id, ts[i].parent_id>> :
        i \in {n \in 1..Len(ts) : ts[n].parent_id # None /\ ts[n].parent_id \in TaskIds(ts)} }

C4_ExactlyTheJustifiedEdges ==
    pc = "links_done" =>
        /\ Range(edges) = TokenRule(tasks) \cup ParentRule(tasks)
        /\ \A i, j \in 1..Len(edges) : i # j => edges[i] # edges[j]

\* two tasks A and B, B.parent_id = A.id, no tokens: exactly the edge (B, A)
C4_Witness ==
    /\ pc = "links_done"
    /\ Len(tasks) = 2
    /\ tasks[1].description = <<>> /\ tasks[2].description = <<>>
    /\ tasks[1].parent_id = None
    /\ tasks[2].parent_id = tasks[1].id
    /\ edges = << <<tasks[2].id, tasks[1].id>> >>

(***************************************************************************)
(* Claims about force_layout (checked under SpecLayout).                   *)
(***************************************************************************)
InBounds(n) ==
    /\ 0 <= n.x /\ n.x <= Fx(lwidth - 1)
    /\ 0 <= n.y /\ n.y <= Fx(lheight - 1)

\* C5 as stated: after force_layout returns, for any iteration count and any
\* width >= 1, height >= 1, every node, the focus node included, has
\* 0 <= x <= width-1 and 0 <= y <= height-1.
C5_AllNodesInBounds ==
    (pc = "layout_done" /\ lwidth >= 1 /\ lheight >= 1) =>
        \A i \in 1..Len(nodes) : InBounds(nodes[i])

\* C5 amended: after force_layout returns from at least one iteration, for
\* any width >= 1 and height >= 1, every node other than the focus node has
\* 0 <= x <= width-1 and 0 <= y <= height-1, and so has the focus node when
\* width >= 2 and height >= 2.
C5_NodesInBoundsAfterAnIteration ==
    (pc = "layout_done" /\ lwidth >= 1 /\ lheight >= 1 /\ iter >= 1) =>
        \A i \in 1..Len(nodes) :
            (nodes[i].id # focus \/ (lwidth >= 2 /\ lheight >= 2)) => InBounds(nodes[i])

\* a run in which the clamp held a node that was pushed rightwards on the
\* right edge, with the focus node among the nodes
C5_Witness ==
    /\ pc = "layout_done"
    /\ iter >= 1
    /\ lwidth >= 2 /\ lheight >= 2
    /\ Len(nodes) = 2
    /\ focus = IdA
    /\ nodes[2].x = Fx(lwidth - 1)
    /\ nodes[2].dx > 0

\* C6: when focus_id is the id of a node, that node's position is exactly
\* (width/2, height/2) at the end of every iteration, and so when
\* force_layout returns from its iterations, whatever force it accumulated.
C6_FocusPinned ==
    (focus \in NodeIds(nodes) /\ pc \in {"iterate", "layout_done"} /\ iter >= 1) =>
        /\ nodes[IndexOf(nodes, focus)].x = Half(lwidth)
        /\ nodes[IndexOf(nodes, focus)].y = Half(lheight)

\* the focus node accumulated a force in the iteration that just ended
C6_Witness ==
    /\ focus \in NodeIds(nodes)
    /\ pc = "iterate"
    /\ iter >= 2
    /\ nodes[IndexOf(nodes, focus)].dx # 0
    /\ nodes[IndexOf(nodes, focus)].dy # 0
    /\ nodes[IndexOf(nodes, focus)].x = Half(lwidth)

(***************************************************************************)
(* Claims about generate_ascii_graph (checked under Spec and SpecRepeat).  *)
(***************************************************************************)
\* s.split("\n"): the lines are the stretches between line breaks
Breaks(s) == {i \in 1..Len(s) : s[i] = "\n"}

LineCount(s) == Cardinality(Breaks(s)) + 1

\* the length of the line that starts after position p
LineLength(s, p) ==
    LET ends == {q \in Breaks(s) \cup {Len(s) + 1} : q > p}
    IN  (CHOOSE q \in ends : \A r \in ends : q <= r) - p - 1

LineLengths(s) == {LineLength(s, p) : p \in Breaks(s) \cup {0}}

IsGridShaped(s) ==
    /\ LineCount(s) = height
    /\ LineLengths(s) = {width}

ReturnedGrid ==
    pc = "returned" /\ tasks # <<>> /\ ~(edges = <<>> /\ Len(tasks) > 1)

NoLineBreakInTitles ==
    \A i \in 1..Len(tasks) : "\n" \notin Range(tasks[i].title)

\* C7 as stated: the string generate_ascii_graph returns consists of exactly
\* `height` lines, each exactly `width` characters long.
C7_ReturnIsGridShaped == pc = "returned" => IsGridShaped(out)

\* C7 amended: when generate_ascii_graph returns a grid (the task list is
\* not empty and it has an edge or a single task) and no title holds a line
\* break, the string consists of exactly `height` lines of exactly `width`
\* characters; a placeholder message is not of that shape.
C7_GridReturnIsGridShaped ==
    (ReturnedGrid /\ NoLineBreakInTitles) => IsGridShaped(out)

\* a grid with a label and an edge drawn on it was returned
C7_Witness ==
    /\ ReturnedGrid
    /\ NoLineBreakInTitles
    /\ Len(tasks) = 2
    /\ edges # <<>>
    /\ "[" \in Range(out)
    /\ width = 16

\* C8: for width >= 1 and height >= 1 generate_ascii_graph returns a string
\* and never raises.
C8_NeverRaises == (width >= 1 /\ height >= 1) => pc # "raised"

C10_SameInEveryProcess ==
    (call = 2 /\ ~sameproc) =>
        /\ pc \notin {"call"} => start = first.start
        /\ pc = "returned" => out = first.out

(***************************************************************************)
(* Claims about render_to_grid and draw_line (checked under SpecRender).   *)
(***************************************************************************)
\* render_to_grid has returned and the caller has not drawn on the grid
RenderReturned == pc = "rendered" /\ calls = 0

InGrid(x, y) == 0 <= x /\ x < width /\ 0 <= y /\ y < height

LabelGlyphs == UNION { Range(Label(nodes[i], focus)) : i \in 1..Len(nodes) }

\* C11: in the grid render_to_grid returns, the cell at every node's
\* integer-truncated (x, y) shows a glyph of a node label and never the '.'
\* line mark, also when an edge line was drawn through that cell.
C11_NodeCellShowsLabelGlyph ==
    RenderReturned =>
        \A i \in 1..Len(nodes) :
            LET x == Trunc(nodes[i].x)
                y == Trunc(nodes[i].y)
            IN  InGrid(x, y) =>
                    /\ grid[y + 1][x + 1] # "."
                    /\ grid[y + 1][x + 1] \in LabelGlyphs

(***************************************************************************)
(* Claims about the placeholder returns of generate_ascii_graph (checked   *)
(* under Spec).                                                            *)
(***************************************************************************)
\* no link extraction, layout or rendering has run in this call
NothingRan ==
    /\ edges = <<>>
    /\ nodes = <<>>
    /\ grid = <<>>
    /\ iter = 0
    /\ k = 0

\* C12: called with an empty task list, generate_ascii_graph returns the
\* fixed empty-state message and runs no link extraction, layout or rendering.
C12_EmptyListReturnsMessage ==
    (tasks = <<>> /\ pc # "call") =>
        /\ pc = "returned"
        /\ out = NoTasksMessage
        /\ NothingRan

\* the call on an empty list has returned
C12_Witness == tasks = <<>> /\ pc = "returned" /\ out = NoTasksMessage

\* find_links has run in this call
LinksExtracted == pc \notin {"call", "links"} /\ tasks # <<>>

\* neither layout nor rendering has run in this call
NoLayoutRan == iter = 0 /\ k = 0 /\ grid = <<>> /\ iterations = 0

\* C13: generate_ascii_graph returns the fixed no-relationship message,
\* without layout or rendering, exactly when the list has more than one task
\* and find_links returns no edge; with a single task and no edges it runs
\* layout and returns a grid.
C13_MessageExactlyWithoutLinks ==
    /\ (pc = "returned" /\ tasks # <<>>) =>
            (out = NoLinksMessage <=> (Len(tasks) > 1 /\ edges = <<>>))
    /\ (pc = "returned" /\ out = NoLinksMessage) => NoLayoutRan
    /\ (LinksExtracted /\ Len(tasks) = 1 /\ edges = <<>>) =>
            /\ iterations = DefaultIterations
            /\ pc # "raised"
            /\ pc = "returned" => (grid # <<>> /\ out = JoinRows(grid))

\* C14 as stated: with more than one task and fewer than 2 edges (none or
\* exactly one), generate_ascii_graph returns the no-relationship message
\* and attempts no layout.
C14_FewerThanTwoEdgesReturnMessage ==
    (LinksExtracted /\ Len(tasks) > 1 /\ Len(edges) < 2) =>
        (pc = "returned" /\ out = NoLinksMessage /\ NoLayoutRan)

\* C14 amended: with more than one task and no edge at all,
\* generate_ascii_graph returns the no-relationship message and attempts no
\* layout; with one edge or more it goes on to the layout.
C14_NoEdgeReturnsMessage ==
    /\ (LinksExtracted /\ Len(tasks) > 1 /\ Len(edges) = 0) =>
            (pc = "returned" /\ out = NoLinksMessage /\ NoLayoutRan)
    /\ (LinksExtracted /\ Len(tasks) > 1 /\ Len(edges) >= 1) =>
            (iterations = DefaultIterations /\ out # NoLinksMessage)

\* two tasks without a link between them got the message
C14_Witness ==
    /\ Len(tasks) = 2
    /\ pc = "returned"
    /\ edges = <<>>
    /\ out = NoLinksMessage

(***************************************************************************)
(* More claims about render_to_grid and draw_line (checked under           *)
(* SpecRender).                                                            *)
(***************************************************************************)
\* a node later in the node loop has a label that reaches the cell (cx, cy)
CoveredLater(i, cx, cy) ==
    \E m \in (i + 1)..Len(nodes) :
        /\ InGrid(Trunc(nodes[m].x), Trunc(nodes[m].y))
        /\ Trunc(nodes[m].y) = cy
        /\ Trunc(nodes[m].x) <= cx
        /\ cx < Trunc(nodes[m].x) + Len(Label(nodes[m], focus))

\* C15: for every node whose integer-truncated (x, y) lies inside the grid,
\* each label character at offset j with x + j < width is written to cell
\* (y, x + j) (and stays unless a later label is written over it): a label
\* that crosses the right edge is drawn partially, not dropped.
C15_LabelDrawnUpToRightEdge ==
    RenderReturned =>
        \A i \in 1..Len(nodes) :
            LET x == Trunc(nodes[i].x)
                y == Trunc(nodes[i].y)
                label == Label(nodes[i], focus)
            IN  InGrid(x, y) =>
                    \A j \in 1..Len(label) :
                        x + (j - 1) < width =>
                            \/ grid[y + 1][x + j] = label[j]
                            \/ CoveredLater(i, x + (j - 1), y)

\* from g to h, only cells that held a space changed, and they became '.'
OnlyBlanksMarked(g, h) ==
    /\ Len(h) = Len(g)
    /\ \A y \in 1..Len(g) :
        /\ Len(h[y]) = Len(g[y])
        /\ \A x \in 1..Len(g[y]) :
            h[y][x] # g[y][x] => (g[y][x] = " " /\ h[y][x] = ".")

\* C16: draw_line changes a cell only if it holds a space, and then sets it
\* to '.': no call modifies a cell that is already non-blank (an earlier
\* line cell or a node glyph); and in render_to_grid every edge is drawn
\* before any node label is written.
C16_LinesMarkBlankCellsOnly ==
    [][ /\ (drawn' # drawn \/ calls' # calls) => OnlyBlanksMarked(grid, grid')
        /\ drawn' # drawn => labelled = 0
        /\ labelled' # labelled => drawn = Len(edges) ]_vars

\* the caller's line from or to (0, 0) met the glyph of a label there and
\* marked the blank cell (4, 2)
C16_Witness ==
    /\ pc = "rendered"
    /\ calls = 1
    /\ edges = <<>>
    /\ width = 6
    /\ grid[1][1] = "["
    /\ grid[3][5] = "."

\* the edge list without the edges that have an endpoint outside the node map
PresentEdges(ns, es) == SelectSeq(es, LAMBDA e : EdgePresent(ns, e))

\* C17: an edge with an endpoint that is not a key of the node map is
\* skipped by force_layout and by render_to_grid without raising: an
\* iteration leaves the nodes as it would without such edges, the edge loop
\* leaves the grid as it is, the grid returned is the grid of the edge list
\* without them, and force_layout raises only if it would without them.
C17_AbsentEndpointEdgesSkipped ==
    [][ /\ iter' = iter + 1 =>
              nodes' = Iteration(nodes, PresentEdges(nodes, edges), lwidth, lheight, k, focus)
        /\ pc' = "raised" => AttractionRaises(nodes, PresentEdges(nodes, edges), k)
        /\ (drawn' = drawn + 1 /\ ~EdgePresent(nodes, edges[drawn'])) => grid' = grid
        /\ (pc' = "rendered" /\ calls' = 0) =>
              grid' = render_to_grid(nodes, PresentEdges(nodes, edges), width, height, focus)
      ]_vars

\* layout and rendering have consumed an edge list in which an edge with an
\* absent endpoint comes before an edge that was drawn
C17_Witness ==
    /\ RenderReturned
    /\ iter >= 1
    /\ Len(edges) >= 2
    /\ ~EdgePresent(nodes, edges[1])
    /\ EdgePresent(nodes, edges[2])
    /\ \E y \in 1..height : "." \in Range(grid[y])

(***************************************************************************)
(* Claims about the inset canvas of generate_ascii_graph (checked under    *)
(* Spec).                                                                  *)
(***************************************************************************)
\* force_layout has returned the node map to generate_ascii_graph
LaidOut == pc \in {"layout_done", "rendered"} \/ (pc = "returned" /\ grid # <<>>)

InInset(n) ==
    /\ 0 <= n.x /\ n.x <= Fx(width - 13)
    /\ 0 <= n.y /\ n.y <= Fx(height - 5)

\* the renderer's bounds test (line 143) passes for the node, its whole
\* label lies inside the grid and, once rendered, is on the grid but for
\* the cells a later label was written over
LabelComplete(i) ==
    LET x == Trunc(nodes[i].x)
        y == Trunc(nodes[i].y)
        label == Label(nodes[i], focus)
    IN  /\ 0 <= y /\ y < height
        /\ 0 <= x /\ x < width - Len(label)
        /\ x + Len(label) <= width
        /\ grid # <<>> =>
              \A j \in 1..Len(label) :
                  grid[y + 1][x + j] = label[j] \/ CoveredLater(i, x + (j - 1), y)

\* C18 as stated: for width >= 13 and height >= 5 every node ends layout
\* with 0 <= x <= width-13 and 0 <= y <= height-5, and every node's complete
\* label passes the renderer's bounds test and is written inside the grid.
C18_InsetKeepsEveryLabel ==
    (LaidOut /\ width >= 13 /\ height >= 5) =>
        \A i \in 1..Len(nodes) : InInset(nodes[i]) /\ LabelComplete(i)

\* C18 amended: for width >= 13 and height >= 5 every node other than the
\* focus node ends layout with 0 <= x <= width-13 and 0 <= y <= height-5;
\* the focus node ends at ((width-12)/2, (height-4)/2), which is within
\* those limits when width >= 14 and height >= 6 and whose truncation is
\* within them always; every node's complete label passes the renderer's
\* bounds test and is written inside the grid.
C18_InsetKeepsEveryLabelFocusAtCentre ==
    (LaidOut /\ width >= 13 /\ height >= 5) =>
        \A i \in 1..Len(nodes) :
            /\ nodes[i].id # focus => InInset(nodes[i])
            /\ nodes[i].id = focus =>
                  /\ nodes[i].x = Half(width - 12) /\ nodes[i].y = Half(height - 4)
                  /\ (width >= 14 /\ height >= 6) => InInset(nodes[i])
            /\ Trunc(nodes[i].x) <= width - 13
            /\ Trunc(nodes[i].y) <= height - 5
            /\ LabelComplete(i)

\* a twelve-character label that starts at the right limit of the inset
\* canvas (column width-13) is on the grid down to its last character (in
\* column width-2)
C18_Witness ==
    /\ pc = "rendered"
    /\ width >= 13 /\ height >= 5
    /\ \E i \in 1..Len(nodes) :
        /\ Len(Label(nodes[i], focus)) = 12
        /\ nodes[i].x = Fx(width - 13)
        /\ grid[Trunc(nodes[i].y) + 1][width - 1] = Label(nodes[i], focus)[12]

(***************************************************************************)
(* Frame of the pipeline (checked under Spec).                             *)
(***************************************************************************)
\* C19: find_links, force_layout, render_to_grid and generate_ascii_graph
\* leave the task list and every task's fields unchanged: no step of a call
\* changes `tasks`.
C19_TasksUnchanged == [][tasks' = tasks]_vars

\* a call that ran link extraction, layout and rendering on a task with a
\* title longer than its label has returned, and the tasks still carry the
\* ids and titles the node map was built from
C19_Witness ==
    /\ pc = "returned"
    /\ grid # <<>>
    /\ edges # <<>>
    /\ \E i \in 1..Len(tasks) : Len(tasks[i].title) > 10
    /\ \A i \in 1..Len(tasks) :
        tasks[i].id = start[i].id /\ tasks[i].title = start[i].title

RecordsOf(e) == {i \in 1..Len(web) : <<web[i].from, web[i].to>> = e}

\* C21: the edge records generate_web_graph emits correspond one-to-one to
\* the edges find_links returns for the same tasks: one record per edge,
\* with the same (from, to), undashed for a parent link and dashed for a
\* textual reference, no record for a pair find_links does not return, no
\* self-referencing record and no second record for a linked pair.
C21_WebRecordsMatchLinks ==
    pc = "web_done" =>
        /\ \A e \in Range(edges) : Cardinality(RecordsOf(e)) = 1
        /\ \A i \in 1..Len(web) :
            /\ <<web[i].from, web[i].to>> \in Range(edges)
            /\ web[i].from # web[i].to
            /\ web[i].dashes => <<web[i].from, web[i].to>> \in TokenRule(tasks)
            /\ ~web[i].dashes => <<web[i].from, web[i].to>> \in ParentRule(tasks)

(***************************************************************************)
(* The label of a node (checked under SpecRender).                         *)
(***************************************************************************)
\* the first 10 characters of the title between '<' '>' for the focus node
\* and between '[' ']' for any other
ClippedTitle(t) == [j \in 1..(IF Len(t) < 10 THEN Len(t) ELSE 10) |-> t[j]]

Wrapped(n) ==
    <<IF n.id = focus THEN "<" ELSE "[">> \o ClippedTitle(n.title)
        \o <<IF n.id = focus THEN ">" ELSE "]">>

\* C22: the label render_to_grid draws for a node is the first 10
\* characters of its title wrapped in '<' '>' when the node's id is the
\* focus id and in '[' ']' otherwise: what one pass of the node loop puts
\* on the grid is that label (or nothing), it is at most 12 characters
\* long, and the grid returned shows at most one '<' (no title of the node
\* maps holds that character).
C22_LabelIsClippedTitleWrapped ==
    [][ /\ labelled' = labelled + 1 =>
              LET n == nodes[labelled']
                  x == Trunc(n.x)
                  y == Trunc(n.y)
                  e == Wrapped(n)
              IN  /\ Len(e) <= 12
                  /\ IF 0 <= y /\ y < height /\ 0 <= x /\ x < width - Len(e)
                     THEN /\ \A j \in 1..Len(e) : grid'[y + 1][x + j] = e[j]
                          /\ \A c \in 1..width :
                                (c <= x \/ c > x + Len(e)) => grid'[y + 1][c] = grid[y + 1][c]
                          /\ \A r \in 1..height : r # y + 1 => grid'[r] = grid[r]
                     ELSE grid' = grid
        /\ (pc' = "rendered" /\ calls' = 0) =>
              Cardinality({ rc \in (1..height) \X (1..width) :
                              grid'[rc[1]][rc[2]] = "<" }) <= 1
      ]_vars

\* a title of 11 characters was drawn as '[' + its first 10 characters + ']'
C22_Witness ==
    /\ pc = "rendered"
    /\ calls = 0
    /\ width = 14
    /\ \E i \in 1..Len(nodes) :
        /\ Len(nodes[i].title) = 11
        /\ Trunc(nodes[i].x) = 0 /\ Trunc(nodes[i].y) = 0
        /\ grid[1][1] = "["
        /\ grid[1][11] = nodes[i].title[10]
        /\ grid[1][12] = "]"

(***************************************************************************)
(* The passes of one iteration of force_layout (checked under SpecLayout). *)
(***************************************************************************)
\* the node map with every accumulator overwritten by v
Scrub(ns, v) == [i \in 1..Len(ns) |-> [ns[i] EXCEPT !.dx = v, !.dy = v]]

\* the node map after the repulsion and attraction passes of an iteration
Accumulated(ns) == Attraction(Repulsion(ns, k), edges, k, focus, 1)

\* C23: in every iteration each node's dx and dy are reset before any force
\* is added, and positions change only in the integration pass: what an
\* iteration makes of the nodes is what it makes of them with any other
\* values left in the accumulators, and the two force passes leave every
\* position as it was at the end of the previous iteration.
C23_IterationStartsFromPositionsOnly ==
    [][ iter' = iter + 1 =>
          /\ nodes' = Iteration(Scrub(nodes, 777), edges, lwidth, lheight, k, focus)
          /\ \A i \in 1..Len(nodes) :
                /\ Accumulated(nodes)[i].x = nodes[i].x
                /\ Accumulated(nodes)[i].y = nodes[i].y
                /\ Accumulated(nodes)[i].dx = nodes'[i].dx
                /\ Accumulated(nodes)[i].dy = nodes'[i].dy
      ]_vars

\* a node that is not the focus begins its third iteration or a later one
\* strictly inside the canvas with a force left in its accumulators
C23_Witness ==
    /\ pc = "iterate"
    /\ iter >= 2
    /\ \E i \in 1..Len(nodes) :
        /\ nodes[i].id # focus
        /\ nodes[i].dx # 0
        /\ 0 < nodes[i].x /\ nodes[i].x < Fx(lwidth - 1)

\* the sums of the accumulators of the nodes i..Len(ns)
RECURSIVE SumDx(_, _)
SumDx(ns, i) == IF i > Len(ns) THEN 0 ELSE ns[i].dx + SumDx(ns, i + 1)

RECURSIVE SumDy(_, _)
SumDy(ns, i) == IF i > Len(ns) THEN 0 ELSE ns[i].dy + SumDy(ns, i + 1)

\* the pull of edge e between the positions of ns: distance ** 2 / k, times
\* 2.5 when strong
Pull(ns, e, strong) ==
    LET dx == ns[IndexOf(ns, e[1])].x - ns[IndexOf(ns, e[2])].x
        dy == ns[IndexOf(ns, e[1])].y - ns[IndexOf(ns, e[2])].y
        distance == Distance(dx, dy)
        base == TDiv(distance * distance, k)
        force == IF strong THEN TDiv(base * 5, 2) ELSE base
    IN  [dx |-> Along(dx, distance, force), dy |-> Along(dy, distance, force)]

\* what one edge changes in the accumulators of node i
EdgeGain(ns, e, i) ==
    [dx |-> Attract(ns, e, k, focus)[i].dx - ns[i].dx,
     dy |-> Attract(ns, e, k, focus)[i].dy - ns[i].dy]

NoGain == [dx |-> 0, dy |-> 0]

Minus(p) == [dx |-> 0 - p.dx, dy |-> 0 - p.dy]

\* C24: in the attraction pass every edge with both endpoints present takes
\* from its source's accumulators what it gives to its target's, on each
\* axis, and touches no other node, so the pass leaves the sums of the
\* accumulators as the repulsion pass left them; the pull is the one
\* multiplied by 2.5 exactly when a focus id is given and is the edge's
\* source or target.
C24_AttractionIsSymmetric ==
    (pc = "iterate" /\ k # 0) =>
        LET r == Repulsion(nodes, k)
            a == Attraction(r, edges, k, focus, 1)
        IN  /\ SumDx(a, 1) = SumDx(r, 1)
            /\ SumDy(a, 1) = SumDy(r, 1)
            /\ \A j \in 1..Len(edges) :
                 EdgePresent(r, edges[j]) =>
                   LET e == edges[j]
                       strong == focus # None /\ focus \in {e[1], e[2]}
                       p == Pull(r, e, strong)
                   IN  \A i \in 1..Len(r) :
                         EdgeGain(r, e, i) =
                           IF e[1] = e[2] THEN NoGain
                           ELSE IF r[i].id = e[1] THEN Minus(p)
                           ELSE IF r[i].id = e[2] THEN p
                           ELSE NoGain

\* an iteration begins with a focus given, an edge between the focus and
\* another node at another place, and an edge between two other places
C24_Witness ==
    /\ pc = "iterate"
    /\ k # 0
    /\ iter < iterations
    /\ focus # None
    /\ \E j \in 1..Len(edges) :
         /\ EdgePresent(nodes, edges[j])
         /\ focus \in {edges[j][1], edges[j][2]}
         /\ Pull(nodes, edges[j], TRUE) # Pull(nodes, edges[j], FALSE)
         /\ Attraction(Repulsion(nodes, k), edges, k, focus, 1) # Repulsion(nodes, k)

\* old + 0.01 * accumulator
Displaced(old, acc) == old + TDiv(acc, 100)

\* C25: in the integration pass every node that is not the focus gets, on
\* each axis on its own, min(bound - 1, max(0, old + 0.01 * accumulator)) with
\* bound the width for x and the height for y: past an edge it stops on the
\* edge, it is not wrapped or reflected, and what happens on one axis leaves
\* the other as its own displacement makes it.
C25_IntegrationClipsEachAxis ==
    [][ iter' = iter + 1 =>
          \A i \in 1..Len(nodes) :
             nodes[i].id # focus =>
               LET tx == Displaced(nodes[i].x, nodes'[i].dx)
                   ty == Displaced(nodes[i].y, nodes'[i].dy)
               IN  /\ nodes'[i].x = Min(Fx(lwidth - 1), Max(0, tx))
                   /\ nodes'[i].y = Min(Fx(lheight - 1), Max(0, ty))
                   /\ (lwidth >= 1 /\ tx < 0) => nodes'[i].x = 0
                   /\ (lwidth >= 1 /\ tx > Fx(lwidth - 1)) => nodes'[i].x = Fx(lwidth - 1)
                   /\ (lheight >= 1 /\ ty < 0) => nodes'[i].y = 0
                   /\ (lheight >= 1 /\ ty > Fx(lheight - 1)) => nodes'[i].y = Fx(lheight - 1)
                   /\ (lheight >= 1 /\ 0 <= ty /\ ty <= Fx(lheight - 1)) => nodes'[i].y = ty
                   /\ (lwidth >= 1 /\ 0 <= tx /\ tx <= Fx(lwidth - 1)) => nodes'[i].x = tx
      ]_vars

\* a node that is not the focus stands on the left edge after an integration
\* that pushed it to the left, and the same integration moved it on the y
\* axis to a place strictly inside the canvas
C25_Witness ==
    /\ pc = "iterate"
    /\ iter >= 1
    /\ \E i \in 1..Len(nodes) :
        /\ nodes[i].id # focus
        /\ nodes[i].x = 0
        /\ TDiv(nodes[i].dx, 100) < 0
        /\ TDiv(nodes[i].dy, 100) # 0
        /\ 0 < nodes[i].y /\ nodes[i].y < Fx(lheight - 1)

\* the keys of a node map with their titles, in dict order
Keyed(ns) == [i \in 1..Len(ns) |-> <<ns[i].id, ns[i].title>>]

\* C26: force_layout never adds or removes a node and never changes a title:
\* every step keeps the keys and the titles of the node map, so the map it
\* returns has the key set it was given; with an empty node map it returns
\* at once, with no k computed, no iteration run and nothing raised.
C26_LayoutKeepsKeysAndTitles ==
    [][ /\ Keyed(nodes') = Keyed(nodes)
        /\ (pc = "layout" /\ nodes = <<>>) =>
              /\ pc' = "layout_done"
              /\ nodes' = <<>>
              /\ k' = k
              /\ iter' = 0
              /\ raised' = ""
      ]_vars

\* force_layout has returned a map of several nodes after at least one
\* iteration that moved a node which is not the focus
C26_Witness ==
    /\ pc = "layout_done"
    /\ iter = iterations
    /\ iter >= 1
    /\ Len(nodes) >= 2
    /\ \E i \in 1..Len(nodes) :
        nodes[i].id # focus /\ TDiv(nodes[i].dx, 100) # 0

(***************************************************************************)
(* The cells draw_line visits (checked under SpecRender).                  *)
(***************************************************************************)
\* a walk of max(|x2 - x1|, |y2 - y1|) + 1 cells from (x1, y1) to (x2, y2)
\* whose consecutive cells differ by at most 1 in each coordinate
StepwiseWalk(cells, x1, y1, x2, y2) ==
    /\ Len(cells) = Max(Abs(x2 - x1), Abs(y2 - y1)) + 1
    /\ cells[1] = <<x1, y1>>
    /\ cells[Len(cells)] = <<x2, y2>>
    /\ \A i \in 1..(Len(cells) - 1) :
         /\ Abs(cells[i + 1][1] - cells[i][1]) <= 1
         /\ Abs(cells[i + 1][2] - cells[i][2]) <= 1
         /\ cells[i + 1] # cells[i]

\* grid g2 is grid g with a '.' in the blank cells the walk visits inside it
\* and nothing else changed
MarkedBy(g, g2, cells) ==
    /\ Len(g2) = Len(g)
    /\ \A y \in 1..Len(g) :
         /\ Len(g2[y]) = Len(g[y])
         /\ \A x \in 1..Len(g[y]) :
              g2[y][x] = IF g[y][x] = " " /\ \E i \in 1..Len(cells) :
                                               cells[i] = <<x - 1, y - 1>>
                         THEN "." ELSE g[y][x]

\* the call draw_line(g, x1, y1, x2, y2) that made g2 of g
LineDrawn(g, g2, x1, y1, x2, y2) ==
    /\ StepwiseWalk(LineCells(x1, y1, x2, y2), x1, y1, x2, y2)
    /\ MarkedBy(g, g2, LineCells(x1, y1, x2, y2))

\* C27: draw_line ends for every pair of integer end points, inside the grid
\* or not: it visits max(|x2 - x1|, |y2 - y1|) + 1 cells, (x1, y1) first and
\* (x2, y2) last, consecutive cells differ by at most 1 in each coordinate,
\* and the visited cells outside the grid are passed over, nothing raised.
C27_DrawLineWalksToItsEnd ==
    [][ /\ (drawn' = drawn + 1 /\ EdgePresent(nodes, edges[drawn + 1])) =>
              LET n1 == nodes[IndexOf(nodes, edges[drawn + 1][1])]
                  n2 == nodes[IndexOf(nodes, edges[drawn + 1][2])]
              IN  /\ LineDrawn(grid, grid', Trunc(n1.x), Trunc(n1.y),
                               Trunc(n2.x), Trunc(n2.y))
                  /\ raised' = raised
        /\ calls' = calls + 1 =>
              /\ \E l \in LineEnds : LineDrawn(grid, grid', l[1], l[2], l[3], l[4])
              /\ \A l \in LineEnds :
                    StepwiseWalk(LineCells(l[1], l[2], l[3], l[4]), l[1], l[2], l[3], l[4])
              /\ raised' = raised
      ]_vars

\* the first edge has been drawn: it joins a node left of the grid to a node
\* inside it on another row, and the line has marked a cell
C27_Witness ==
    /\ pc = "render_edges"
    /\ drawn = 1
    /\ EdgePresent(nodes, edges[1])
    /\ LET n1 == nodes[IndexOf(nodes, edges[1][1])]
           n2 == nodes[IndexOf(nodes, edges[1][2])]
       IN  /\ Trunc(n1.x) < 0
           /\ Trunc(n2.x) >= 2
           /\ Trunc(n1.y) # Trunc(n2.y)
           /\ Trunc(n2.y) \in 0..(height - 1)
           /\ grid[Trunc(n2.y) + 1][Trunc(n2.x) + 1] = "."
           /\ \E y \in 1..height : grid[y][1] = "."

(***************************************************************************)
(* TaskManager (src/task_manager.py).  The manager starts with what the    *)
(* storage loads, here nothing.  Task ids are the successive values of     *)
(* uuid4, numbered 1, 2, ... in the order they are made, which is also the *)
(* insertion order of the dict; an id is never made twice.  A stored task  *)
(* is the record of the fields the calls below read or write; `children`   *)
(* lists Task objects, named here by their ids.                            *)
(***************************************************************************)
\* line 57: parent_id None
NoId == 0

\* a parent_id string that uuid4 never made
StrangerId == -1

\* line 54: due_date None
NoDate == -1

graphVars == <<callArgs, edges, nodes, layoutArgs, iter, k, raised, renderVars,
               repeatVars, stepVars, other, web>>

\* line 124: the new Task object
NewTask(parent, due, status) ==
    [parent_id |-> parent, children |-> <<>>, due_date |-> due, status |-> status]

\* self.tasks[id] = t
Put(store, id, t) == [i \in DOMAIN store \cup {id} |-> IF i = id THEN t ELSE store[i]]

\* del self.tasks[id]
Without(store, id) == [i \in DOMAIN store \ {id} |-> store[i]]

\* lines 124-129
add_task(store, id, parent, due, status) ==
    LET s1 == Put(store, id, NewTask(parent, due, status))
    IN  IF parent # NoId /\ parent \in DOMAIN s1
        THEN [s1 EXCEPT ![parent].children = Append(@, id)]
        ELSE s1

\* lines 146-150, for one keyword argument
update_task(store, id, key, value) ==
    IF id \notin DOMAIN store THEN store
    ELSE [store EXCEPT ![id] = [@ EXCEPT ![key] = value]]

RECURSIVE delete_task(_, _)
RECURSIVE DeleteChildren(_, _, _)
\* lines 166-167: the loop over the copy of the children list, from its
\* i-th member on
DeleteChildren(store, kids, i) ==
    IF i > Len(kids) THEN store
    ELSE DeleteChildren(delete_task(store, kids[i]), kids, i + 1)

\* lines 161-176
delete_task(store, id) ==
    IF id \notin DOMAIN store THEN store
    ELSE LET t == store[id]
             s1 == DeleteChildren(store, t.children, 1)
             s2 == IF t.parent_id # NoId /\ t.parent_id \in DOMAIN s1
                   THEN [s1 EXCEPT ![t.parent_id].children =
                                       SelectSeq(@, LAMBDA c : c # id)]
                   ELSE s1
         IN  Without(s2, id)

\* lines 185-188: the ids of the tasks get_task_tree returns
get_task_tree(store) == {i \in DOMAIN store : store[i].parent_id = NoId}

\* lines 107-132: a call of add_task
AddTaskCall(limit, parents, dues, statuses) ==
    /\ pc = "manager"
    /\ made < limit
    /\ \E parent \in parents, due \in dues, status \in statuses :
         mtasks' = add_task(mtasks, made + 1, parent, due, status)
    /\ made' = made + 1
    /\ last' = NoOp
    /\ UNCHANGED <<pc, graphVars, notified, now, log>>

\* lines 138-151: a call of update_task with one keyword argument
UpdateTaskCall(key, values) ==
    /\ pc = "manager"
    /\ \E id \in 1..made :
         \E value \in values : mtasks' = update_task(mtasks, id, key, value)
    /\ last' = NoOp
    /\ UNCHANGED <<pc, graphVars, made, notified, now, log>>

\* lines 153-178: a call of delete_task
DeleteTaskCall ==
    /\ pc = "manager"
    /\ \E id \in 1..made :
         /\ mtasks' = delete_task(mtasks, id)
         /\ last' = [op |-> "delete_task", id |-> id]
    /\ UNCHANGED <<pc, graphVars, made, notified, now, log>>

ManagerAdd == AddTaskCall(MaxTasks, {NoId, StrangerId} \cup (1..made), {NoDate}, {"TODO"})

ManagerReparent == UpdateTaskCall("parent_id", {NoId, StrangerId} \cup (1..made))

InitManager ==
    /\ tasks = <<>>
    /\ width = 0
    /\ height = 0
    /\ seed = 0
    /\ focus = None
    /\ nodes = <<>>
    /\ edges = <<>>
    /\ lwidth = 0
    /\ lheight = 0
    /\ iterations = 0
    /\ iter = 0
    /\ k = 0
    /\ raised = ""
    /\ pc = "manager"
    /\ grid = <<>>
    /\ out = <<>>
    /\ start = <<>>
    /\ call = 1
    /\ sameproc = TRUE
    /\ first = NoCall
    /\ drawn = 0
    /\ labelled = 0
    /\ calls = 0
    /\ other = NoThread
    /\ web = <<>>
    /\ mtasks = <<>>
    /\ made = 0
    /\ last = NoOp
    /\ notified = {}
    /\ now = 0
    /\ log = <<>>

NextManager == ManagerAdd \/ ManagerReparent \/ DeleteTaskCall

SpecManager == InitManager /\ [][NextManager]_vars

\* the tasks whose parent_id chain leads to id
RECURSIVE LeadsTo(_, _, _, _)
LeadsTo(store, t, id, fuel) ==
    /\ fuel > 0
    /\ t \in DOMAIN store
    /\ \/ store[t].parent_id = id
       \/ LeadsTo(store, store[t].parent_id, id, fuel - 1)

\* C28: after delete_task(id) has returned the task dictionary holds neither
\* the task id nor a task whose parent_id chain leads to id, and no stored
\* task's children list holds a task that is not stored.
C28_DeleteRemovesSubtree ==
    last.op = "delete_task" =>
        /\ last.id \notin DOMAIN mtasks
        /\ \A t \in DOMAIN mtasks : ~LeadsTo(mtasks, t, last.id, MaxTasks + 1)
        /\ \A t \in DOMAIN mtasks :
             \A i \in 1..Len(mtasks[t].children) : mtasks[t].children[i] \in DOMAIN mtasks

\* the tasks reached from get_task_tree() through children
RECURSIVE Reached(_, _, _)
Reached(store, from, fuel) ==
    IF fuel = 0 THEN from
    ELSE Reached(store,
                 from \cup {c \in DOMAIN store :
                              \E p \in from \cap DOMAIN store :
                                 \E i \in 1..Len(store[p].children) :
                                    store[p].children[i] = c},
                 fuel - 1)

\* C29: after any sequence of add_task, update_task and delete_task calls
\* every stored task has no parent_id or the parent_id of a stored task that
\* lists it among its children, every member of a stored task's children is
\* stored with that task's id as parent_id, and every stored task is reached
\* from get_task_tree() through children.
C29_TreeIsConsistent ==
    /\ \A t \in DOMAIN mtasks :
         \/ mtasks[t].parent_id = NoId
         \/ /\ mtasks[t].parent_id \in DOMAIN mtasks
            /\ \E i \in 1..Len(mtasks[mtasks[t].parent_id].children) :
                  mtasks[mtasks[t].parent_id].children[i] = t
    /\ \A p \in DOMAIN mtasks :
         \A i \in 1..Len(mtasks[p].children) :
            /\ mtasks[p].children[i] \in DOMAIN mtasks
            /\ mtasks[mtasks[p].children[i]].parent_id = p
    /\ DOMAIN mtasks \subseteq Reached(mtasks, get_task_tree(mtasks), MaxTasks + 1)

(***************************************************************************)
(* ReminderManager (src/reminder.py) over a TaskManager whose tasks are    *)
(* added and updated between the checks.  Times are the ticks of the clock *)
(* datetime.now() reads.                                                   *)
(***************************************************************************)
Statuses == {"TODO", "DONE", "WAITING"}

Times == 0..MaxTime

\* a slip: no test of notified_task_ids
IsDueAgain(t, id, at, seen) ==
    /\ t.due_date # NoDate
    /\ t.due_date <= at
    /\ t.status # "DONE"

\* lines 40-45
IsDue(t, id, at, seen) ==
    /\ t.due_date # NoDate
    /\ t.due_date <= at
    /\ id \notin seen
    /\ t.status # "DONE"

\* lines 35-47: due_tasks, the ids of the tasks the loop appends, from the
\* task id i on in dict order
RECURSIVE DueTasks(_, _, _, _, _)
DueTasks(store, at, seen, i, n) ==
    IF i > n THEN <<>>
    ELSE (IF i \in DOMAIN store /\ IsDue(store[i], i, at, seen) THEN <<i>> ELSE <<>>)
         \o DueTasks(store, at, seen, i + 1, n)

\* lines 26-49: a call of check_reminders
CheckRemindersCall ==
    /\ pc = "manager"
    /\ Len(log) < MaxChecks
    /\ log' = Append(log, DueTasks(mtasks, now, notified, 1, made))
    /\ notified' = notified \cup Range(DueTasks(mtasks, now, notified, 1, made))
    /\ last' = NoOp
    /\ UNCHANGED <<pc, graphVars, mtasks, made, now>>

\* the clock moves on
Tick ==
    /\ pc = "manager"
    /\ now < MaxTime
    /\ now' = now + 1
    /\ UNCHANGED <<pc, graphVars, mtasks, made, last, notified, log>>

ReminderAdd == AddTaskCall(MaxDueTasks, {NoId}, {NoDate} \cup Times, Statuses)

ReminderSetStatus == UpdateTaskCall("status", Statuses)

ReminderSetDue == UpdateTaskCall("due_date", {NoDate} \cup Times)

NextReminders ==
    \/ ReminderAdd
    \/ ReminderSetStatus
    \/ ReminderSetDue
    \/ Tick
    \/ CheckRemindersCall

SpecReminders == InitManager /\ [][NextReminders]_vars

\* the ids the calls of check_reminders recorded in l returned
Returned(l) == UNION {Range(l[c]) : c \in 1..Len(l)}

\* C30: over check_reminders calls interleaved with additions and updates,
\* a call returns no task id an earlier call returned and none twice, every
\* task it returns has at the call a due_date not later than now and a status
\* other than DONE, and a task that is not due or is DONE at the call is not
\* returned and not added to the notified ids.
C30_RemindedOnceWhenDue ==
    [][ Len(log') = Len(log) + 1 =>
          LET ret == log'[Len(log')]
          IN  /\ Range(ret) \cap Returned(log) = {}
              /\ \A i, j \in 1..Len(ret) : ret[i] = ret[j] => i = j
              /\ \A i \in 1..Len(ret) :
                    /\ ret[i] \in DOMAIN mtasks
                    /\ mtasks[ret[i]].due_date # NoDate
                    /\ mtasks[ret[i]].due_date <= now
                    /\ mtasks[ret[i]].status # "DONE"
              /\ \A id \in DOMAIN mtasks :
                    (\/ mtasks[id].due_date = NoDate
                     \/ mtasks[id].due_date > now
                     \/ mtasks[id].status = "DONE")
                    => /\ id \notin Range(ret)
                       /\ id \in notified' => id \in notified
      ]_vars

\* two calls have each returned a task; the task the first call returned
\* was still due and not DONE at the second call, which has just returned
\* without it, and a task that is DONE with a due_date in the past is stored
\* without having been notified
C30_Witness ==
    /\ Len(log) = 2
    /\ log[1] # <<>>
    /\ log[2] # <<>>
    /\ \E id \in Range(log[1]) \cap DOMAIN mtasks :
         /\ mtasks[id].due_date # NoDate
         /\ mtasks[id].due_date <= now
         /\ mtasks[id].status # "DONE"
         /\ id \notin Range(log[2])

====
